---------------------------- MODULE Spec2Model ----------------------------
(***************************************************************************)
(* A model of queue-sim.                                                    *)
(*                                                                          *)
(* The computation engine (src/src/queueModel.ts): the numeric kernel       *)
(* (geomSum, geomWeightedSum, factorial with its shared cache) and the      *)
(* three steady-state solvers mmckFinite, mmcInfinite and mmcPriority.      *)
(* Spec is the specification of the calls of the engine.                    *)
(*                                                                          *)
(* The simulator (src/src/QueueSimulator.tsx): its parameters, its state,   *)
(* and its handlers: the controls, resetSimulation, the numServers effect   *)
(* and the tick of the simulation loop.  SimSpec is the specification of    *)
(* the simulator.                                                           *)
(*                                                                          *)
(* Numbers.  A JavaScript number is modelled as a rational <<n, d>> in      *)
(* lowest terms with d > 0, computed exactly; the three IEEE-754 special    *)
(* values a division by zero produces are <<1, 0>> (+Infinity), <<-1, 0>>   *)
(* (-Infinity) and <<0, 0>> (NaN).  The rounding of IEEE-754 doubles is not *)
(* modelled: every property below is a property of the formulas the code    *)
(* evaluates, in exact arithmetic.  The one exception is the tick's         *)
(* recomputation of the previous clock value, newTime - 0.1 * speed, whose  *)
(* rounding decides whether a history point is taken (see rounding).        *)
(***************************************************************************)
EXTENDS Integers, Sequences, FiniteSets, TLC

\* The engine: the module-level cache, the call in progress and its outcome.
VARIABLES factorialCache, call, result

\* The simulator's parameters.
VARIABLES numServers, arrivalRate, serviceRate, cvArrival, cvService, speed

\* The simulator's state. currentTime, servers, queue and arrivingDogs stand
\* both for the ref and for the React state that every handler sets to the
\* ref's value.
VARIABLES isRunning, currentTime, servers, queue, arrivingDogs,
          completedCount, totalArrived, queueHistory,
          nextCustomerId, nextArrivalTime

\* What is recorded about the simulator's run: the handler that ran last, and
\* every value nextArrivalTime has taken since the last reset.
VARIABLES event, scheduled

\* The application (App): the priority switch, the queue type, the arrival
\* rate and the stored class fractions (the state "classFractions": index 0 is
\* unused, indices 1 .. 3 are the fractions entered for classes 2 .. 4).
VARIABLES usePriorities, queueType, lambda, enteredFractions

\* TRUE from a state update of the application until the render it schedules
\* has run.
VARIABLE renderPending

engineVars == <<factorialCache, call, result>>

paramVars == <<numServers, arrivalRate, serviceRate, cvArrival, cvService, speed>>

stateVars == <<isRunning, currentTime, servers, queue, arrivingDogs,
               completedCount, totalArrived, queueHistory,
               nextCustomerId, nextArrivalTime>>

simVars == <<paramVars, stateVars, event, scheduled>>

appVars == <<usePriorities, queueType, lambda, enteredFractions, renderPending>>

vars == <<engineVars, simVars, appVars>>

-----------------------------------------------------------------------------
(* Exact arithmetic on JavaScript numbers.                                  *)

Abs(n) == IF n < 0 THEN -n ELSE n

Sgn(n) == IF n < 0 THEN -1 ELSE IF n > 0 THEN 1 ELSE 0

RECURSIVE Gcd(_, _)
Gcd(a, b) == IF b = 0 THEN a ELSE Gcd(b, a % b)

\* The number n/d (d = 0 gives the special value of the sign of n).
Norm(n, d) ==
    IF d = 0 THEN <<Sgn(n), 0>>
    ELSE LET g == Gcd(Abs(n), Abs(d))
         IN  IF d < 0 THEN <<-(n \div g), -(d \div g)>> ELSE <<n \div g, d \div g>>

FromInt(n) == <<n, 1>>

Zero == FromInt(0)

One == FromInt(1)

IsFinite(x) == x[2] # 0

IsNaN(x) == x[1] = 0 /\ x[2] = 0

RNeg(x) == <<-x[1], x[2]>>

RAdd(x, y) ==
    IF IsFinite(x) /\ IsFinite(y)
    THEN LET g == Gcd(x[2], y[2])
         IN  Norm(x[1] * (y[2] \div g) + y[1] * (x[2] \div g), (x[2] \div g) * y[2])
    ELSE IF ~IsFinite(x) /\ ~IsFinite(y)
         THEN (IF x[1] = y[1] THEN x ELSE <<0, 0>>)
         ELSE IF IsFinite(y) THEN x ELSE y

RSub(x, y) == RAdd(x, RNeg(y))

RMul(x, y) ==
    IF IsFinite(x) /\ IsFinite(y)
    THEN LET g1 == Gcd(Abs(x[1]), y[2])
             g2 == Gcd(Abs(y[1]), x[2])
         IN  <<(x[1] \div g1) * (y[1] \div g2), (x[2] \div g2) * (y[2] \div g1)>>
    ELSE <<Sgn(x[1]) * Sgn(y[1]), 0>>

\* 1/x; 1/0 is +Infinity and 1/Infinity is 0, as in IEEE-754.
RInv(x) ==
    IF ~IsFinite(x) THEN (IF IsNaN(x) THEN x ELSE Zero)
    ELSE IF x[1] = 0 THEN <<1, 0>>
    ELSE IF x[1] < 0 THEN <<-x[2], -x[1]>>
    ELSE <<x[2], x[1]>>

RDiv(x, y) == RMul(x, RInv(y))

\* x < y; every comparison with NaN is false.
RLt(x, y) ==
    IF IsNaN(x) \/ IsNaN(y) THEN FALSE
    ELSE IF IsFinite(x) /\ IsFinite(y) THEN RSub(x, y)[1] < 0
    ELSE IF ~IsFinite(x) /\ ~IsFinite(y) THEN x[1] < y[1]
    ELSE IF IsFinite(x) THEN y[1] > 0 ELSE x[1] < 0

RGt(x, y) == RLt(y, x)

RGe(x, y) == ~IsNaN(x) /\ ~IsNaN(y) /\ ~RLt(x, y)

RAbs(x) == <<Abs(x[1]), x[2]>>

\* Math.pow(x, n) for an integer exponent n; Math.pow(x, 0) is 1 for every x.
RECURSIVE RPow(_, _)
RPow(x, n) ==
    IF n = 0 THEN One
    ELSE IF n < 0 THEN RInv(RPow(x, -n))
    ELSE RMul(x, RPow(x, n - 1))

\* The sum of the numbers s[1] .. s[n] of a sequence, left to right.
RECURSIVE RSumTo(_, _)
RSumTo(s, n) == IF n = 0 THEN Zero ELSE RAdd(RSumTo(s, n - 1), s[n])

RSum(s) == RSumTo(s, Len(s))

-----------------------------------------------------------------------------
(* The numeric kernel.                                                      *)

\* 1e-12, the width of the "r is 1" window of the geometric sums, is
\* 1 / (EpsRoot * EpsRoot).
EpsRoot == 1000000

\* x < 1e-12 for a number x >= 0, that is x[2] > x[1] * EpsRoot * EpsRoot.
LtEps(x) ==
    /\ IsFinite(x)
    /\ \/ x[1] = 0
       \/ /\ x[1] <= 2147
          /\ LET q == (x[2] \div EpsRoot) \div EpsRoot
                 exact == (x[2] % EpsRoot = 0) /\ ((x[2] \div EpsRoot) % EpsRoot = 0)
             IN  q > x[1] \/ (q = x[1] /\ ~exact)

\* geomSum with r^m in place of r^(m+1) in the closed form.
geomSumShort(r, m) ==
    IF LtEps(RAbs(RSub(One, r))) THEN FromInt(m + 1)
    ELSE RDiv(RSub(One, RPow(r, m)), RSub(One, r))

\* geomSum without its "r is 1" branch: the closed form for every r.
geomSumClosedForm(r, m) ==
    RDiv(RSub(One, RPow(r, m + 1)), RSub(One, r))

\* Sum_{k=0..m} r^k.
geomSum(r, m) ==
    IF LtEps(RAbs(RSub(One, r)))
    THEN FromInt(m + 1)
    ELSE RDiv(RSub(One, RPow(r, m + 1)), RSub(One, r))

\* geomWeightedSum without the leading factor r of its closed form.
geomWeightedSumUnscaled(r, m) ==
    IF m <= 0 THEN Zero
    ELSE IF LtEps(RAbs(RSub(One, r)))
    THEN Norm(m * (m + 1), 2)
    ELSE RDiv(RAdd(RSub(One, RMul(FromInt(m + 1), RPow(r, m))),
                   RMul(FromInt(m), RPow(r, m + 1))),
              RPow(RSub(One, r), 2))

\* Sum_{k=1..m} k * r^k.
geomWeightedSum(r, m) ==
    IF m <= 0 THEN Zero
    ELSE IF LtEps(RAbs(RSub(One, r)))
    THEN Norm(m * (m + 1), 2)
    ELSE RDiv(RMul(r, RAdd(RSub(One, RMul(FromInt(m + 1), RPow(r, m))),
                           RMul(FromInt(m), RPow(r, m + 1)))),
              RPow(RSub(One, r), 2))

\* The loop of factorial with "let result = 1" in place of the last entry of
\* the cache: the entries it stores depend on where the cache ended.
RECURSIVE factorialLoopFrom(_, _, _)
factorialLoopFrom(cache, n, res) ==
    IF Len(cache) > n THEN cache
    ELSE factorialLoopFrom(Append(cache, res * Len(cache)), n, res * Len(cache))

factorialLoopFromOne(cache, n) == factorialLoopFrom(cache, n, 1)

\* The loop of factorial started one index early, "i = factorialCache.length
\* - 1": it multiplies the last entry by its own index and writes it again.
factorialLoopRewrites(cache, n) ==
    IF Len(cache) > n THEN cache
    ELSE factorialLoopFrom(SubSeq(cache, 1, Len(cache) - 1), n, cache[Len(cache)])

\* The cache is the JavaScript array factorialCache: index i of the array is
\* position i + 1 of the sequence.
\* The loop "for (i = factorialCache.length; i <= n; i++)": every iteration
\* multiplies the last entry by i and stores it at index i.
RECURSIVE factorialLoop(_, _)
factorialLoop(cache, n) ==
    IF Len(cache) > n THEN cache
    ELSE factorialLoop(Append(cache, cache[Len(cache)] * Len(cache)), n)

\* factorial with a cached read of the entry before: factorialCache[n - 1].
factorialReadsBefore(cache, n) ==
    IF n < 0
    THEN [threw |-> TRUE, error |-> "Factorial not defined for negative numbers",
          cache |-> cache]
    ELSE IF n = 0 \/ n = 1
    THEN [threw |-> FALSE, val |-> 1, cache |-> cache]
    ELSE IF n < Len(cache) /\ cache[n + 1] # 0
    THEN [threw |-> FALSE, val |-> cache[n], cache |-> cache]
    ELSE LET ext == factorialLoop(cache, n)
         IN  [threw |-> FALSE, val |-> ext[n + 1], cache |-> ext]

\* factorial without its early return for n = 0 and n = 1.
factorialNoEarlyReturn(cache, n) ==
    IF n < 0
    THEN [threw |-> TRUE, error |-> "Factorial not defined for negative numbers",
          cache |-> cache]
    ELSE IF n < Len(cache) /\ cache[n + 1] # 0
    THEN [threw |-> FALSE, val |-> cache[n + 1], cache |-> cache]
    ELSE LET ext == factorialLoop(cache, n)
         IN  [threw |-> FALSE, val |-> ext[n + 1], cache |-> ext]

\* factorial(n) called with the cache as it is: whether it throws, the value
\* it returns and the cache it leaves.
factorial(cache, n) ==
    IF n < 0
    THEN [threw |-> TRUE, error |-> "Factorial not defined for negative numbers",
          cache |-> cache]
    ELSE IF n = 0 \/ n = 1
    THEN [threw |-> FALSE, val |-> 1, cache |-> cache]
    ELSE IF n < Len(cache) /\ cache[n + 1] # 0
    THEN [threw |-> FALSE, val |-> cache[n + 1], cache |-> cache]
    ELSE LET ext == factorialLoop(cache, n)
         IN  [threw |-> FALSE, val |-> ext[n + 1], cache |-> ext]

-----------------------------------------------------------------------------
(* Finite capacity: M/M/c/K.                                                *)

\* The loop "for (n = 0; n < c; n++) sum0 += Math.pow(a, n) / factorial(n)",
\* from n on, with the cache threaded through the calls of factorial.
RECURSIVE sum0Loop(_, _, _, _, _)
sum0Loop(cache, a, c, n, sum0) ==
    IF n >= c THEN [val |-> sum0, cache |-> cache]
    ELSE LET f == factorial(cache, n)
         IN  sum0Loop(f.cache, a, c, n + 1,
                      RAdd(sum0, RDiv(RPow(a, n), FromInt(f.val))))

\* Pn with rho^(n-c+1) in place of rho^(n-c) from n = c on.
PnShifted(cache, P0, a, rho, c, n) ==
    IF n < c
    THEN LET f == factorial(cache, n)
         IN  [val |-> RDiv(RMul(P0, RPow(a, n)), FromInt(f.val)), cache |-> f.cache]
    ELSE LET f == factorial(cache, c)
         IN  [val |-> RMul(RMul(P0, RDiv(RPow(a, c), FromInt(f.val))),
                           RPow(rho, n - c + 1)),
              cache |-> f.cache]

\* The closure Pn(n) of mmckFinite.
Pn(cache, P0, a, rho, c, n) ==
    IF n < c
    THEN LET f == factorial(cache, n)
         IN  [val |-> RDiv(RMul(P0, RPow(a, n)), FromInt(f.val)), cache |-> f.cache]
    ELSE LET f == factorial(cache, c)
         IN  [val |-> RMul(RDiv(RMul(P0, RPow(a, c)), FromInt(f.val)), RPow(rho, n - c)),
              cache |-> f.cache]

\* The loop "for (n = 0; n <= N; n++) stateProbabilities.push(Pn(n))".
RECURSIVE stateProbabilitiesLoop(_, _, _, _, _, _, _, _)
stateProbabilitiesLoop(cache, P0, a, rho, c, N, n, stateProbabilities) ==
    IF n > N THEN [val |-> stateProbabilities, cache |-> cache]
    ELSE LET pn == Pn(cache, P0, a, rho, c, n)
         IN  stateProbabilitiesLoop(pn.cache, P0, a, rho, c, N, n + 1,
                                    Append(stateProbabilities, pn.val))

\* invalidFinite with K = 0 rejected as well.
invalidFiniteNoZero(c, K) == c < 1 \/ K <= 0

\* The guard "c < 1 || K < 0" of mmckFinite.
invalidFinite(c, K) == c < 1 \/ K < 0

\* effectiveThroughput with every arrival joining.
effectiveThroughputAll(lam, Pb) == lam

\* "R = lam * (1 - Pb)": the rate of the arrivals that join.
effectiveThroughput(lam, Pb) == RMul(lam, RSub(One, Pb))

\* balkingRate with the share of the arrivals that join in place of Pb.
balkingRateOfJoining(lam, Pb) == RMul(lam, RSub(One, Pb))

\* "RiPb = lam * Pb": the rate of the arrivals that balk.
balkingRate(lam, Pb) == RMul(lam, Pb)

\* perThroughput without the test of R.
perThroughputUnguarded(x, R) == RDiv(x, R)

\* perThroughput with a product in place of the quotient.
perThroughputTimes(x, R) == IF RGt(R, Zero) THEN RMul(x, R) ELSE Zero

\* "R > 0 ? x / R : 0.0": Ti from Ii, and T from I.
perThroughput(x, R) == IF RGt(R, Zero) THEN RDiv(x, R) ELSE Zero

\* finiteTail counting from the waiting line of length Q, not Q + 1.
finiteTailFromQ(coeff, rho, K, Q) ==
    IF Q >= K THEN Zero
    ELSE RMul(coeff, RSub(geomSum(rho, K), geomSum(rho, Q - 1)))

\* The optional P_q_gt_Q of mmckFinite, for a supplied Q.
finiteTail(coeff, rho, K, Q) ==
    IF Q >= K THEN Zero
    ELSE RMul(coeff, RSub(geomSum(rho, K), geomSum(rho, Q)))

\* mmckFinite(p) called with the cache as it is. p is the parameter object:
\* c, K, arrivalRate, serviceRate and, when it is supplied, Q.
mmckFinite(cache, p) ==
    IF invalidFinite(p.c, p.K)
    THEN [threw |-> TRUE, error |-> "c must be >= 1 and K must be >= 0", cache |-> cache]
    ELSE
    LET c     == p.c
        K     == p.K
        lam   == p.arrivalRate
        mu    == p.serviceRate
        a     == RDiv(lam, mu)
        rho   == RDiv(lam, RMul(FromInt(c), mu))
        N     == c + K
        sum0  == sum0Loop(cache, a, c, 0, Zero)
        f1    == factorial(sum0.cache, c)
        term  == RMul(RDiv(RPow(a, c), FromInt(f1.val)), geomSum(rho, K))
        P0    == RDiv(One, RAdd(sum0.val, term))
        Pb    == Pn(f1.cache, P0, a, rho, c, N)
        R     == effectiveThroughput(lam, Pb.val)
        RiPb  == balkingRate(lam, Pb.val)
        f2    == factorial(Pb.cache, c)
        coeff == RDiv(RMul(P0, RPow(a, c)), FromInt(f2.val))
        Ii    == RMul(coeff, geomWeightedSum(rho, K))
        Ip    == RDiv(R, mu)
        Utilization == RDiv(Ip, FromInt(c))
        I     == RAdd(Ii, Ip)
        Ti    == perThroughput(Ii, R)
        T     == perThroughput(I, R)
        stateProbabilities ==
                 stateProbabilitiesLoop(f2.cache, P0, a, rho, c, N, 0, <<>>)
        res   == [R |-> R, RiPb |-> RiPb, Pb |-> Pb.val, Ii |-> Ii, Ti |-> Ti, Ip |-> Ip,
                  Utilization |-> Utilization, I |-> I, T |-> T,
                  stateProbabilities |-> stateProbabilities.val]
        P_q_gt_Q == finiteTail(coeff, rho, K, p.Q)
    IN  [threw |-> FALSE,
         value |-> IF "Q" \in DOMAIN p THEN [P_q_gt_Q |-> P_q_gt_Q] @@ res ELSE res,
         cache |-> stateProbabilities.cache]

-----------------------------------------------------------------------------
(* Infinite capacity: M/M/c.                                                *)

\* unstable with rho = 1 taken for stable.
unstableAboveOne(rho) == RGt(rho, One)

\* The guard "rho >= 1" of mmcInfinite and of mmcPriority.
unstable(rho) == RGe(rho, One)

\* erlangLq with (1 - rho) in place of its square.
erlangLqUnsquared(P0, a, rho, c, fc) ==
    RDiv(RMul(RMul(P0, RPow(a, c)), rho), RMul(FromInt(fc), RSub(One, rho)))

\* "Lq = (P0 * a^c * rho) / (c! * (1 - rho)^2)", with fc the value factorial(c)
\* returned.
erlangLq(P0, a, rho, c, fc) ==
    RDiv(RMul(RMul(P0, RPow(a, c)), rho), RMul(FromInt(fc), RPow(RSub(One, rho), 2)))

\* mmcInfinite(p) called with the cache as it is. p is the parameter object:
\* c, arrivalRate, serviceRate and, when it is supplied, Q. The time threshold
\* t is never supplied (P_wait_gt_t is absent from every result).
mmcInfinite(cache, p) ==
    IF p.c < 1
    THEN [threw |-> TRUE, error |-> "c must be >= 1", cache |-> cache]
    ELSE
    LET c   == p.c
        lam == p.arrivalRate
        mu  == p.serviceRate
        a   == RDiv(lam, mu)
        rho == RDiv(lam, RMul(FromInt(c), mu))
    IN  IF unstable(rho)
        THEN [threw |-> TRUE,
              error |-> "System must be stable: arrivalRate < c * serviceRate",
              cache |-> cache]
        ELSE
        LET sum0  == sum0Loop(cache, a, c, 0, Zero)
            f1    == factorial(sum0.cache, c)
            termc == RMul(RDiv(RPow(a, c), FromInt(f1.val)), RDiv(One, RSub(One, rho)))
            P0    == RDiv(One, RAdd(sum0.val, termc))
            f2    == factorial(f1.cache, c)
            Lq    == erlangLq(P0, a, rho, c, f2.val)
            Wq    == RDiv(Lq, lam)
            Ip    == a
            Utilization == rho
            L     == RAdd(Lq, Ip)
            W     == RAdd(Wq, RDiv(One, mu))
            f3    == factorial(f2.cache, c)
            Pw    == RMul(RDiv(RPow(a, c), RMul(FromInt(f3.val), RSub(One, rho))), P0)
            res   == [Ii |-> Lq, Ti |-> Wq, Ip |-> Ip, Utilization |-> Utilization,
                      I |-> L, T |-> W, Pw |-> Pw]
            tail  == RDiv(RPow(rho, p.Q + 1), RSub(One, rho))
            f4    == factorial(f3.cache, c)
            P_q_gt_Q == RMul(RDiv(RMul(P0, RPow(a, c)), FromInt(f4.val)), tail)
        IN  IF "Q" \in DOMAIN p
            THEN [threw |-> FALSE, value |-> [P_q_gt_Q |-> P_q_gt_Q] @@ res,
                  cache |-> f4.cache]
            ELSE [threw |-> FALSE, value |-> res, cache |-> f3.cache]

-----------------------------------------------------------------------------
(* Priority classes: M/M/c with non-preemptive priorities.                  *)

\* classIi with the formula of class 0 for every class.
classIiAsFirst(k, Ii_total, fraction_k, rho, F_k, F_prev) ==
    RDiv(RMul(RMul(Ii_total, fraction_k), RSub(One, rho)), F_k)

\* Ii(k) of class k (0-based), from F(k) and F(k-1).
classIi(k, Ii_total, fraction_k, rho, F_k, F_prev) ==
    IF k = 0
    THEN RDiv(RMul(RMul(Ii_total, fraction_k), RSub(One, rho)), F_k)
    ELSE RDiv(RMul(RMul(Ii_total, fraction_k), RSub(One, rho)), RMul(F_k, F_prev))

\* classTi dividing by the whole arrival rate, not by the class's share of it.
classTiOverall(Ii_k, fraction_k, lam) ==
    IF RGt(fraction_k, Zero) THEN RDiv(Ii_k, lam) ELSE Zero

\* "Ti_k = fraction_k > 0 ? Ii_k / (fraction_k * lam) : 0".
classTi(Ii_k, fraction_k, lam) ==
    IF RGt(fraction_k, Zero) THEN RDiv(Ii_k, RMul(fraction_k, lam)) ELSE Zero

\* The loop over classFractions from class k on (k is the 0-based index of the
\* code, classFractions[k] is position k + 1 of the sequence).
RECURSIVE classesLoop(_, _, _, _, _, _, _)
classesLoop(classFractions, Ii_total, rho, lam, k, F_prev, classes) ==
    IF k >= Len(classFractions) THEN classes
    ELSE LET fraction_k == classFractions[k + 1]
             F_k  == RSub(F_prev, RMul(fraction_k, rho))
             Ii_k == classIi(k, Ii_total, fraction_k, rho, F_k, F_prev)
             Ti_k == classTi(Ii_k, fraction_k, lam)
         IN  classesLoop(classFractions, Ii_total, rho, lam, k + 1, F_k,
                         Append(classes, [Ii_k |-> Ii_k, Ti_k |-> Ti_k]))

\* mmcPriority(p) called with the cache as it is. p is the parameter object:
\* c, arrivalRate, serviceRate, classFractions.
mmcPriority(cache, p) ==
    LET lam == p.arrivalRate
        mu  == p.serviceRate
        rho == RDiv(lam, RMul(FromInt(p.c), mu))
    IN  IF unstable(rho)
        THEN [threw |-> TRUE,
              error |-> "System must be stable: arrivalRate < c * serviceRate",
              cache |-> cache]
        ELSE
        LET overallResult ==
                mmcInfinite(cache, [c |-> p.c, arrivalRate |-> lam, serviceRate |-> mu])
            Ii_total == overallResult.value.Ii
        IN  IF overallResult.threw THEN overallResult
            ELSE [threw |-> FALSE,
                  value |-> [classes |-> classesLoop(p.classFractions, Ii_total, rho,
                                                     lam, 0, One, <<>>),
                             Ii_total |-> Ii_total],
                  cache |-> overallResult.cache]

-----------------------------------------------------------------------------
(* The simulator: QueueSimulator.                                           *)

\* An empty server slot (null). A Customer has an id of 1 or more.
null == [id |-> 0]

RLe(x, y) == RGe(y, x)

\* Math.max
RMax(x, y) == IF RLt(x, y) THEN y ELSE x

\* Math.floor of a finite number.
Floor(x) == x[1] \div x[2]

\* "0.1", the simulated time of a tick at speed 1.
TickStep == Norm(1, 10)

\* "walkTime = 2": a dog is shown walking from 2 time units before it arrives.
walkTime == FromInt(2)

\* "0.01": two arrival times closer than this are taken for the same arrival.
SameArrival == Norm(1, 100)

\* generateRandomTime(mean, cv), where e is the value that
\* -Math.log(1 - Math.random()) takes in the call.
generateRandomTime(mean, cv, e) ==
    IF cv = Zero THEN mean
    ELSE IF cv = One THEN RMul(e, mean)
    ELSE RAdd(RMul(mean, RSub(One, cv)), RMul(RMul(e, mean), cv))

\* Random draws: the first MaxDraws interarrival draws after a reset, and the
\* service draws of the Customers with the ids 1 .. MaxDraws, take any of
\* the values of ExpDraws for -Math.log(1 - Math.random()); later draws take
\* the largest.
MaxDraws == 1

ExpDraws == {Norm(1, 200), Norm(1, 2), FromInt(4)}

Draws(cv, drawn) ==
    IF cv = Zero THEN {One}
    ELSE IF drawn < MaxDraws THEN ExpDraws
    ELSE {FromInt(4)}

\* "generateRandomTime(1 / arrivalRate, cvArrival)": the values it can return
\* after drawn earlier draws.
interarrivalTimes(drawn) ==
    {generateRandomTime(RInv(arrivalRate), cvArrival, e) : e \in Draws(cvArrival, drawn)}

\* "generateRandomTime(1 / serviceRate, cvService)", likewise.
serviceTimes(drawn) ==
    {generateRandomTime(RInv(serviceRate), cvService, e) : e \in Draws(cvService, drawn)}

\* One turn of the loop "while (nextArrivalTime.current <= newTime +
\* walkTime)" of the tick, from the state st of arrivingDogs, nextCustomerId,
\* nextArrivalTime (and scheduled): every state the turn can end in, one for
\* each value drawn; st itself where the loop has ended.
arrivalsTurn(newTime, st) ==
    IF ~RLe(st.nextArrivalTime, RAdd(newTime, walkTime)) THEN {st}
    ELSE LET arrivalTime == st.nextArrivalTime
             existingDog ==
                 \E i \in DOMAIN st.arrivingDogs :
                     RLt(RAbs(RSub(st.arrivingDogs[i].arrivalTime, arrivalTime)),
                         SameArrival)
             newDog == [id |-> st.nextCustomerId,
                        startTime |-> RMax(Zero, RSub(arrivalTime, walkTime)),
                        arrivalTime |-> arrivalTime]
         IN  {[arrivingDogs |-> IF existingDog THEN st.arrivingDogs
                                ELSE Append(st.arrivingDogs, newDog),
               nextCustomerId |-> IF existingDog THEN st.nextCustomerId
                                  ELSE st.nextCustomerId + 1,
               nextArrivalTime |-> RAdd(arrivalTime, interarrivalTime),
               scheduled |-> Append(st.scheduled, RAdd(arrivalTime, interarrivalTime))] :
              interarrivalTime \in interarrivalTimes(Len(st.scheduled) - 1)}

\* n turns of the loop from each state of sts.
RECURSIVE arrivalsTurns(_, _, _)
arrivalsTurns(newTime, sts, n) ==
    IF n = 1 THEN UNION {arrivalsTurn(newTime, st) : st \in sts}
    ELSE arrivalsTurns(newTime, arrivalsTurns(newTime, sts, n \div 2), n - n \div 2)

\* The loop, run until it has ended in every state: the states it can end in,
\* one for each sequence of draws.
RECURSIVE arrivalsLoop(_, _)
arrivalsLoop(newTime, sts) ==
    IF \A st \in sts : ~RLe(st.nextArrivalTime, RAdd(newTime, walkTime)) THEN sts
    ELSE arrivalsLoop(newTime, arrivalsTurns(newTime, sts, 32))

\* arrivingDogs.filter(d => newTime >= d.arrivalTime)
arrivedDogs(dogs, newTime) ==
    SelectSeq(dogs, LAMBDA d : RGe(newTime, d.arrivalTime))

\* arrivingDogs.filter(d => newTime < d.arrivalTime)
walkingDogs(dogs, newTime) ==
    SelectSeq(dogs, LAMBDA d : RLt(newTime, d.arrivalTime))

\* The loop "for (const dog of arrivedDogs)" from dog k on: every waiting line
\* it can end with, one for each sequence of service draws.
RECURSIVE joinQueue(_, _, _)
joinQueue(arrived, k, q) ==
    IF k > Len(arrived) THEN {q}
    ELSE UNION {joinQueue(arrived, k + 1,
                          Append(q, [id |-> arrived[k].id,
                                     arrivalTime |-> arrived[k].arrivalTime,
                                     serviceTime |-> serviceTime])) :
                serviceTime \in serviceTimes(arrived[k].id - 1)}

\* The completion test with > in place of >=.
completedAfter(customer, newTime) ==
    /\ customer # null
    /\ customer.endServiceTime # Zero
    /\ RGt(newTime, customer.endServiceTime)

\* "customer && customer.endServiceTime && newTime >= customer.endServiceTime"
completed(customer, newTime) ==
    /\ customer # null
    /\ customer.endServiceTime # Zero
    /\ RGe(newTime, customer.endServiceTime)

\* The servers after the loop "Check for completed service".
freeServers(srv, newTime) ==
    [i \in DOMAIN srv |-> IF completed(srv[i], newTime) THEN null ELSE srv[i]]

\* The count of that loop taken over every occupied slot.
completionsOccupied(srv, newTime) ==
    Cardinality({i \in DOMAIN srv : srv[i] # null})

\* The completions that loop counts.
completions(srv, newTime) ==
    Cardinality({i \in DOMAIN srv : completed(srv[i], newTime)})

\* The Customer taken from the waiting line by server i (0-based) at newTime.
startService(customer, i, newTime) ==
    [id |-> customer.id, arrivalTime |-> customer.arrivalTime,
     serviceTime |-> customer.serviceTime,
     startServiceTime |-> newTime,
     endServiceTime |-> RAdd(newTime, customer.serviceTime),
     serverId |-> i]

\* The assignment loop with pop() in place of shift(): a free server takes
\* the Customer at the back of the waiting line.
RECURSIVE assignLoopLast(_, _, _, _)
assignLoopLast(srv, q, i, newTime) ==
    IF ~(i < Len(srv) /\ Len(q) > 0) THEN [servers |-> srv, queue |-> q]
    ELSE IF srv[i + 1] = null
    THEN assignLoopLast([srv EXCEPT ![i + 1] = startService(q[Len(q)], i, newTime)],
                        SubSeq(q, 1, Len(q) - 1), i + 1, newTime)
    ELSE assignLoopLast(srv, q, i + 1, newTime)

\* The assignment loop with a break after the first assignment: one Customer
\* starts per tick.
RECURSIVE assignLoopOnce(_, _, _, _)
assignLoopOnce(srv, q, i, newTime) ==
    IF ~(i < Len(srv) /\ Len(q) > 0) THEN [servers |-> srv, queue |-> q]
    ELSE IF srv[i + 1] = null
    THEN [servers |-> [srv EXCEPT ![i + 1] = startService(q[1], i, newTime)],
          queue |-> Tail(q)]
    ELSE assignLoopOnce(srv, q, i + 1, newTime)

\* The loop "Assign waiting customers to free servers", from server i on.
RECURSIVE assignLoop(_, _, _, _)
assignLoop(srv, q, i, newTime) ==
    IF ~(i < Len(srv) /\ Len(q) > 0) THEN [servers |-> srv, queue |-> q]
    ELSE IF srv[i + 1] = null
    THEN assignLoop([srv EXCEPT ![i + 1] = startService(Head(q), i, newTime)],
                    Tail(q), i + 1, newTime)
    ELSE assignLoop(srv, q, i + 1, newTime)

\* One unit in the last place of a clock value.
Ulp == <<1, 1000000000>>

\* What the double subtraction "newTime - 0.1 * speed" loses against the exact
\* difference, for the runs below (speeds 1, 2 and 5, clock up to 0.9): the
\* clock 0.5 advanced at speed 2 is the double 0.7, and 0.7 - 0.2 is the
\* double 0.49999999999999994, short of 0.5 in the last place; every other
\* difference of these runs lies on the same side of every multiple of 0.5 as
\* the exact one.
rounding(newTime) ==
    IF newTime = Norm(7, 10) /\ speed = FromInt(2) THEN Ulp ELSE Zero

\* "newTime - 0.1 * speed", the tick's recomputation of the clock's previous
\* value.
previousTime(newTime) ==
    RSub(RSub(newTime, RMul(TickStep, speed)), rounding(newTime))

\* "Math.floor(newTime * 2) > Math.floor((newTime - 0.1 * speed) * 2)"
sampleDue(newTime) ==
    Floor(RMul(newTime, FromInt(2)))
        > Floor(RMul(previousTime(newTime), FromInt(2)))

\* The numServers effect without its copy loop: n empty slots.
resizeServersEmpty(srv, n) == [i \in 1 .. n |-> null]

\* The server array of the numServers effect: n slots, the first
\* min(old length, n) of them as they were.
resizeServers(srv, n) ==
    [i \in 1 .. n |-> IF i <= Len(srv) THEN srv[i] ELSE null]

\* Array(n).fill(null)
emptyServers(n) == [i \in 1 .. n |-> null]

\* The simulator as the component mounts it.
SimInit ==
    /\ numServers = 2
    /\ arrivalRate = FromInt(1)
    /\ serviceRate = Norm(3, 2)
    /\ cvArrival = FromInt(1)
    /\ cvService = FromInt(1)
    /\ speed = FromInt(1)
    /\ isRunning = FALSE
    /\ currentTime = Zero
    /\ servers = emptyServers(2)
    /\ queue = <<>>
    /\ arrivingDogs = <<>>
    /\ completedCount = 0
    /\ totalArrived = 0
    /\ queueHistory = <<>>
    /\ nextCustomerId = 1
    /\ nextArrivalTime = Zero
    /\ event = "mount"
    /\ scheduled = <<Zero>>

-----------------------------------------------------------------------------
(* The application: App and the QueueResults it renders.                    *)

\* The service rate, the number of servers and the queue capacity stay at
\* their initial values: mu = 60, c = 1, K = 5.
muClamped == FromInt(60)

cClamped == 1

KClamped == 5

\* Math.max(0, lambda)
lambdaClamped(l) == RMax(Zero, l)

\* rho = lambdaClamped / (cClamped * muClamped), Infinity without servers or
\* service.
appRho(l) ==
    IF RLe(muClamped, Zero) \/ cClamped <= 0 THEN <<1, 0>>
    ELSE RDiv(lambdaClamped(l), RMul(FromInt(cClamped), muClamped))

isUnstable(l) == RGe(appRho(l), One)

\* [fraction1, ...classFractions.slice(1)] with fraction1 = 1 - sumOthers.
allClassFractions(stored) ==
    <<RSub(One, RSum(Tail(stored)))>> \o Tail(stored)

\* Whether the memo priorityResults calls mmcPriority.
callsPriority(up, qt, l) == up /\ qt = "infinite" /\ ~isUnstable(l)

\* The parameter object of that call.
priorityParams(l, stored) ==
    [c |-> cClamped, arrivalRate |-> lambdaClamped(l), serviceRate |-> muClamped,
     classFractions |-> allClassFractions(stored)]

\* The parameter object the memo "results" of QueueResults calls mmckFinite
\* (finite queue) or mmcInfinite with: Q is the component's state, 0.
resultsParams(qt, l) ==
    IF qt = "finite"
    THEN [c |-> cClamped, K |-> KClamped, arrivalRate |-> lambdaClamped(l),
          serviceRate |-> muClamped, Q |-> 0]
    ELSE [c |-> cClamped, arrivalRate |-> lambdaClamped(l),
          serviceRate |-> muClamped, Q |-> 0]

\* The cache after that memo, which calls nothing for an unstable infinite
\* queue.
resultsCache(cache, qt, l, p) ==
    IF qt = "finite" THEN mmckFinite(cache, p).cache
    ELSE IF isUnstable(l) THEN cache
    ELSE mmcInfinite(cache, p).cache

AppInit ==
    /\ usePriorities = FALSE
    /\ queueType = "infinite"
    /\ lambda = FromInt(30)
    /\ enteredFractions = <<Zero, Norm(4, 5), Zero, Zero>>
    /\ renderPending = FALSE

-----------------------------------------------------------------------------
(* The calls the model makes.                                               *)

\* Servers: c ranges over -1 .. MaxC (c < 1 is the invalid input).
MaxC == 3

\* Waiting room: K ranges over -1 .. MaxK (K < 0 is the invalid input).
MaxK == 3

\* Threshold: Q, when supplied, ranges over 0 .. MaxQ.
MaxQ == 3

\* Direct calls of factorial: n ranges over -1 .. MaxN.
MaxN == 6

\* <<arrivalRate, serviceRate>> of the calls: rates that give rho < 1,
\* rho = 1 and rho > 1 for the numbers of servers called with.
Rates == {<<1, 2>>, <<1, 1>>, <<3, 2>>, <<2, 1>>, <<3, 1>>}

\* The classFractions of the calls of mmcPriority: the self-test's
\* [0.2, 0.8, 0, 0], other vectors that sum to 1, and two that do not.
Fractions ==
    { <<Norm(1, 5), Norm(4, 5), Zero, Zero>>,
      <<Norm(1, 5), Zero, Norm(4, 5), Zero>>,
      <<Zero, Norm(1, 2), Norm(1, 4), Norm(1, 4)>>,
      <<Norm(1, 4), Norm(1, 4), Norm(1, 4), Norm(1, 4)>>,
      <<Norm(1, 2), Norm(1, 2)>>,
      <<One>>,
      <<Norm(1, 2), Norm(1, 4)>>,
      <<Norm(1, 2), Norm(3, 4), Zero>> }

\* The calls of the self-test at the end of queueModel.ts.
Example1 == [c |-> 2, K |-> 0, arrivalRate |-> FromInt(45), serviceRate |-> FromInt(25)]

Example2 == [c |-> 2, arrivalRate |-> FromInt(45), serviceRate |-> FromInt(25)]

Example3 ==
    [c |-> 2, arrivalRate |-> FromInt(45), serviceRate |-> FromInt(24),
     classFractions |-> <<Norm(1, 5), Norm(4, 5), Zero, Zero>>]

\* The parameter objects with and without the optional Q.
WithOptionalQ(base) == base \cup {[Q |-> Q] @@ b : b \in base, Q \in 0 .. MaxQ}

\* Calls of mmckFinite with arrivalRate = 0: nobody arrives.
NoArrivals ==
    {[c |-> c, K |-> K, arrivalRate |-> Zero, serviceRate |-> FromInt(mu)] :
     c \in 1 .. MaxC, K \in 0 .. MaxK, mu \in {1, 2}}

FiniteParams ==
    WithOptionalQ({Example1} \cup
                  {[c |-> c, K |-> K, arrivalRate |-> FromInt(rates[1]),
                    serviceRate |-> FromInt(rates[2])] :
                   c \in 0 .. MaxC, K \in -1 .. MaxK, rates \in Rates})
    \cup NoArrivals

InfiniteParams ==
    WithOptionalQ({Example2} \cup
                  {[c |-> c, arrivalRate |-> FromInt(rates[1]),
                    serviceRate |-> FromInt(rates[2])] :
                   c \in 0 .. MaxC, rates \in Rates})

PriorityParams ==
    {[Example3 EXCEPT !.classFractions = classFractions] : classFractions \in Fractions}
    \cup
    {[c |-> c, arrivalRate |-> FromInt(rates[1]), serviceRate |-> FromInt(rates[2]),
      classFractions |-> classFractions] :
     c \in -1 .. MaxC, rates \in Rates, classFractions \in Fractions}

\* The value a call that has returned holds for its caller.
NoResult == [threw |-> FALSE, value |-> Zero]

Init ==
    /\ factorialCache = <<1>>
    /\ call = [fn |-> "none"]
    /\ result = NoResult
    /\ SimInit
    /\ AppInit

\* No call is in progress: the last one has returned to its caller.
Idle == call.fn = "none"

\* A call of factorial(n).
CallFactorial ==
    /\ Idle
    /\ \E n \in -1 .. MaxN :
         \E r \in {factorial(factorialCache, n)} :
            /\ call' = [fn |-> "factorial", n |-> n]
            /\ result' = IF r.threw THEN [threw |-> TRUE, error |-> r.error]
                         ELSE [threw |-> FALSE, value |-> r.val]
            /\ factorialCache' = r.cache
            /\ UNCHANGED <<simVars, appVars>>

\* A call of mmckFinite.
CallFinite ==
    /\ Idle
    /\ \E p \in FiniteParams :
         \E r \in {mmckFinite(factorialCache, p)} :
            /\ call' = [fn |-> "mmckFinite", p |-> p]
            /\ result' = IF r.threw THEN [threw |-> TRUE, error |-> r.error]
                         ELSE [threw |-> FALSE, value |-> r.value]
            /\ factorialCache' = r.cache
            /\ UNCHANGED <<simVars, appVars>>

\* A call of mmcInfinite.
CallInfinite ==
    /\ Idle
    /\ \E p \in InfiniteParams :
         \E r \in {mmcInfinite(factorialCache, p)} :
            /\ call' = [fn |-> "mmcInfinite", p |-> p]
            /\ result' = IF r.threw THEN [threw |-> TRUE, error |-> r.error]
                         ELSE [threw |-> FALSE, value |-> r.value]
            /\ factorialCache' = r.cache
            /\ UNCHANGED <<simVars, appVars>>

\* A call of mmcPriority.
CallPriority ==
    /\ Idle
    /\ \E p \in PriorityParams :
         \E r \in {mmcPriority(factorialCache, p)} :
            /\ call' = [fn |-> "mmcPriority", p |-> p]
            /\ result' = IF r.threw THEN [threw |-> TRUE, error |-> r.error]
                         ELSE [threw |-> FALSE, value |-> r.value]
            /\ factorialCache' = r.cache
            /\ UNCHANGED <<simVars, appVars>>

\* The call returns: its caller takes what it returned or threw. Of the state
\* the call worked on, only the module-level factorialCache outlives it.
Return ==
    /\ ~Idle
    /\ call' = [fn |-> "none"]
    /\ result' = NoResult
    /\ UNCHANGED factorialCache
    /\ UNCHANGED <<simVars, appVars>>

Next == CallFactorial \/ CallFinite \/ CallInfinite \/ CallPriority \/ Return

Spec == Init /\ [][Next]_vars

-----------------------------------------------------------------------------
(* The calls of the geometric sums on their own.                            *)

\* The sums are called with m in -1 .. MaxM.
MaxM == 4

\* The ratios r they are called with: below, at and above 1, 0 and negative.
Ratios ==
    {FromInt(-2), FromInt(-1), Norm(-1, 2), Zero, Norm(1, 3), Norm(1, 2),
     Norm(2, 3), One, Norm(3, 2), FromInt(2), FromInt(3)}

\* A call of geomSum(r, m).
CallGeomSum ==
    /\ Idle
    /\ \E r \in Ratios : \E m \in 0 .. MaxM :
         /\ call' = [fn |-> "geomSum", r |-> r, m |-> m]
         /\ result' = [threw |-> FALSE, value |-> geomSum(r, m)]
    /\ UNCHANGED <<factorialCache, simVars, appVars>>

\* A call of geomWeightedSum(r, m).
CallGeomWeightedSum ==
    /\ Idle
    /\ \E r \in Ratios : \E m \in -1 .. MaxM :
         /\ call' = [fn |-> "geomWeightedSum", r |-> r, m |-> m]
         /\ result' = [threw |-> FALSE, value |-> geomWeightedSum(r, m)]
    /\ UNCHANGED <<factorialCache, simVars, appVars>>

KernelNext == CallGeomSum \/ CallGeomWeightedSum \/ Return

KernelSpec == Init /\ [][KernelNext]_vars

-----------------------------------------------------------------------------
(* The application's handlers.                                              *)

\* What is typed into the percentage field of a class: whole percentages, and
\* 150, which the handler refuses.
Percents == {0, 30, 50, 80, 100, 150}

\* What is typed into the arrival-rate field.
Lambdas == {FromInt(30), FromInt(90)}

\* The memo priorityResults of App in a render: what its call of mmcPriority
\* returned (r) is what the render leaves as call and result.
rendered(r, p) ==
    [call |-> [fn |-> "mmcPriority", p |-> p],
     result |-> IF r.threw THEN [threw |-> TRUE, error |-> r.error]
                ELSE [threw |-> FALSE, value |-> r.value],
     cache |-> r.cache]

\* A state update schedules a render; the handlers below are the only code
\* between an event and the render that follows it.
Update == ~renderPending /\ renderPending' = TRUE

\* The "Enable priorities" checkbox.
SetUsePriorities ==
    /\ Update
    /\ usePriorities' = ~usePriorities
    /\ UNCHANGED <<queueType, lambda, enteredFractions, engineVars, simVars>>

\* The queue type select.
SetQueueType ==
    /\ Update
    /\ \E qt \in {"infinite", "finite"} :
         /\ qt # queueType
         /\ queueType' = qt
    /\ UNCHANGED <<usePriorities, lambda, enteredFractions, engineVars, simVars>>

\* The arrival-rate field.
SetLambda ==
    /\ Update
    /\ \E v \in Lambdas :
         /\ v # lambda
         /\ lambda' = v
    /\ UNCHANGED <<usePriorities, queueType, enteredFractions, engineVars, simVars>>

\* The percentage field of class idx + 1 (idx = 1 .. 3 in the code; the class
\* table is shown with priorities enabled on an infinite queue): a value v
\* with 0 <= v <= 100 is stored as v / 100, any other leaves the entry.
SetClassFraction ==
    /\ Update
    /\ usePriorities /\ queueType = "infinite"
    /\ \E idx \in 1 .. 3 : \E v \in Percents :
         enteredFractions' =
             IF v >= 0 /\ v <= 100
             THEN [enteredFractions EXCEPT ![idx + 1] = Norm(v, 100)]
             ELSE enteredFractions
    /\ UNCHANGED <<usePriorities, queueType, lambda, engineVars, simVars>>

\* The render of the updated state, which runs before the next event is
\* handled: priorityResults of App, then the memo results of QueueResults.
Render ==
    /\ renderPending
    /\ renderPending' = FALSE
    /\ \E p \in {priorityParams(lambda, enteredFractions)} :
       \E o \in (IF callsPriority(usePriorities, queueType, lambda)
                 THEN {rendered(r, p) : r \in {mmcPriority(factorialCache, p)}}
                 ELSE {[call |-> [fn |-> "none"], result |-> NoResult,
                        cache |-> factorialCache]}) :
       \E cache \in {o.cache} :
       \E q \in {resultsParams(queueType, lambda)} :
           /\ call' = o.call
           /\ result' = o.result
           /\ factorialCache' = resultsCache(cache, queueType, lambda, q)
    /\ UNCHANGED <<usePriorities, queueType, lambda, enteredFractions, simVars>>

AppNext ==
    SetUsePriorities \/ SetQueueType \/ SetLambda \/ SetClassFraction \/ Render

AppSpec == Init /\ [][AppNext]_vars

-----------------------------------------------------------------------------
(* The simulator's handlers.                                                *)

\* The run bounds: no tick takes the clock past MaxTenths / 10, and no tick
\* starts once MaxArrived Customers have joined the waiting line.
MaxTenths == 8

MaxArrived == 3

\* The server-count slider goes from 1 to MaxServers.
MaxServers == 2

\* The values the speed slider is moved to.
Speeds == {FromInt(1), FromInt(2), FromInt(5)}

\* The parameters the simulator is run with, as
\* <<arrivalRate, cvArrival, serviceRate, cvService>>: the defaults, and what
\* the fields and sliders are set to, one at a time, before a run.
Configs ==
    {<<FromInt(1), One, Norm(3, 2), One>>,
     <<FromInt(1), Zero, Norm(3, 2), One>>,
     <<FromInt(1), Zero, Norm(3, 2), Zero>>,
     <<FromInt(1), Zero, FromInt(5), Zero>>,
     <<FromInt(200), Zero, Norm(3, 2), Zero>>}

ArrivalRates == {config[1] : config \in Configs}
Cvs == {config[2] : config \in Configs}
ServiceRates == {config[3] : config \in Configs}

\* The fields and sliders of the four parameters are used before a run: at
\* clock 0, while paused (they are disabled while running).
BeforeRun == ~isRunning /\ currentTime = Zero

\* The server-count slider (disabled while running) is moved to n, and the
\* numServers effect runs.
SetNumServers ==
    /\ ~isRunning
    /\ \E n \in 1 .. MaxServers :
         /\ n # numServers
         /\ numServers' = n
         /\ servers' = resizeServers(servers, n)
    /\ event' = "numServers"
    /\ UNCHANGED <<arrivalRate, serviceRate, cvArrival, cvService, speed>>
    /\ UNCHANGED <<isRunning, currentTime, queue, arrivingDogs, completedCount,
                   totalArrived, queueHistory, nextCustomerId, nextArrivalTime>>
    /\ UNCHANGED <<scheduled, engineVars, appVars>>

\* The arrival-rate field (disabled while running) is edited.
SetArrivalRate ==
    /\ BeforeRun
    /\ \E v \in ArrivalRates :
         /\ v # arrivalRate
         /\ <<v, cvArrival, serviceRate, cvService>> \in Configs
         /\ arrivalRate' = v
    /\ event' = "parameter"
    /\ UNCHANGED <<numServers, serviceRate, cvArrival, cvService, speed>>
    /\ UNCHANGED <<stateVars, scheduled, engineVars, appVars>>

\* The service-rate field (disabled while running) is edited.
SetServiceRate ==
    /\ BeforeRun
    /\ \E v \in ServiceRates :
         /\ v # serviceRate
         /\ <<arrivalRate, cvArrival, v, cvService>> \in Configs
         /\ serviceRate' = v
    /\ event' = "parameter"
    /\ UNCHANGED <<numServers, arrivalRate, cvArrival, cvService, speed>>
    /\ UNCHANGED <<stateVars, scheduled, engineVars, appVars>>

\* The arrival-CV slider (disabled while running) is moved.
SetCvArrival ==
    /\ BeforeRun
    /\ \E v \in Cvs :
         /\ v # cvArrival
         /\ <<arrivalRate, v, serviceRate, cvService>> \in Configs
         /\ cvArrival' = v
    /\ event' = "parameter"
    /\ UNCHANGED <<numServers, arrivalRate, serviceRate, cvService, speed>>
    /\ UNCHANGED <<stateVars, scheduled, engineVars, appVars>>

\* The service-CV slider (disabled while running) is moved.
SetCvService ==
    /\ BeforeRun
    /\ \E v \in Cvs :
         /\ v # cvService
         /\ <<arrivalRate, cvArrival, serviceRate, v>> \in Configs
         /\ cvService' = v
    /\ event' = "parameter"
    /\ UNCHANGED <<numServers, arrivalRate, serviceRate, cvArrival, speed>>
    /\ UNCHANGED <<stateVars, scheduled, engineVars, appVars>>

\* The speed slider is moved, running or not.
SetSpeed ==
    /\ \E v \in Speeds :
         /\ v # speed
         /\ speed' = v
    /\ event' = "speed"
    /\ UNCHANGED <<numServers, arrivalRate, serviceRate, cvArrival, cvService>>
    /\ UNCHANGED <<stateVars, scheduled, engineVars, appVars>>

\* A Start / Pause button that schedules the next arrival afresh on start.
StartPauseRearm ==
    /\ isRunning' = ~isRunning
    /\ event' = IF isRunning THEN "pause" ELSE "start"
    /\ nextArrivalTime' = IF isRunning THEN nextArrivalTime ELSE currentTime
    /\ UNCHANGED <<currentTime, servers, queue, arrivingDogs, completedCount,
                   totalArrived, queueHistory, nextCustomerId>>
    /\ UNCHANGED <<paramVars, scheduled, engineVars, appVars>>

\* The Start / Pause button: setIsRunning(!isRunning).
StartPause ==
    /\ isRunning' = ~isRunning
    /\ event' = IF isRunning THEN "pause" ELSE "start"
    /\ UNCHANGED <<currentTime, servers, queue, arrivingDogs, completedCount,
                   totalArrived, queueHistory, nextCustomerId, nextArrivalTime>>
    /\ UNCHANGED <<paramVars, scheduled, engineVars, appVars>>

\* A reset without lines 138 and 142: the pending arrivals are left.
resetLeavingArrivals ==
    /\ currentTime' = Zero
    /\ queue' = <<>>
    /\ servers' = emptyServers(numServers)
    /\ completedCount' = 0
    /\ totalArrived' = 0
    /\ queueHistory' = <<>>
    /\ nextCustomerId' = 1
    /\ nextArrivalTime' = Zero
    /\ isRunning' = FALSE
    /\ event' = "reset"
    /\ scheduled' = <<Zero>>
    /\ UNCHANGED <<arrivingDogs, paramVars, engineVars, appVars>>

\* The Reset button.
resetSimulation ==
    /\ currentTime' = Zero
    /\ queue' = <<>>
    /\ servers' = emptyServers(numServers)
    /\ arrivingDogs' = <<>>
    /\ completedCount' = 0
    /\ totalArrived' = 0
    /\ queueHistory' = <<>>
    /\ nextCustomerId' = 1
    /\ nextArrivalTime' = Zero
    /\ isRunning' = FALSE
    /\ event' = "reset"
    /\ scheduled' = <<Zero>>
    /\ UNCHANGED <<paramVars, engineVars, appVars>>

\* One tick of the simulation loop: the callback of setInterval.
Tick ==
    /\ isRunning
    /\ totalArrived < MaxArrived
    /\ \E newTime \in {RAdd(currentTime, RMul(TickStep, speed))} :
         /\ RLe(newTime, Norm(MaxTenths, 10))
         /\ \E a \in arrivalsLoop(newTime,
                                  {[arrivingDogs |-> arrivingDogs,
                                    nextCustomerId |-> nextCustomerId,
                                    nextArrivalTime |-> nextArrivalTime,
                                    scheduled |-> scheduled]}) :
            \E arrived \in {arrivedDogs(a.arrivingDogs, newTime)} :
            \E q \in joinQueue(arrived, 1, queue) :
            \E s \in {assignLoop(freeServers(servers, newTime), q, 0, newTime)} :
               /\ currentTime' = newTime
               /\ arrivingDogs' = walkingDogs(a.arrivingDogs, newTime)
               /\ nextCustomerId' = a.nextCustomerId
               /\ nextArrivalTime' = a.nextArrivalTime
               /\ scheduled' = a.scheduled
               /\ totalArrived' = totalArrived + Len(arrived)
               /\ servers' = s.servers
               /\ queue' = s.queue
               /\ completedCount' = completedCount + completions(servers, newTime)
               /\ queueHistory' =
                     IF sampleDue(newTime)
                     THEN Append(queueHistory,
                                 [time |-> newTime, queueLength |-> Len(s.queue)])
                     ELSE queueHistory
    /\ event' = "tick"
    /\ UNCHANGED <<isRunning, paramVars, engineVars, appVars>>

SimNext ==
    \/ SetNumServers \/ SetArrivalRate \/ SetServiceRate \/ SetCvArrival
    \/ SetCvService \/ SetSpeed \/ StartPause \/ resetSimulation \/ Tick

SimSpec == Init /\ [][SimNext]_vars

-----------------------------------------------------------------------------
(* Reference mathematics, written without the cache and without the closed  *)
(* forms of the geometric sums, to compare the solvers' results against.    *)

RECURSIVE Fact(_)
Fact(n) == IF n <= 1 THEN 1 ELSE n * Fact(n - 1)

\* a^n / n!
PoissonTerm(a, n) == RDiv(RPow(a, n), FromInt(Fact(n)))

\* The sum of a^n / n! for n = lo .. hi.
RECURSIVE PoissonSum(_, _, _)
PoissonSum(a, lo, hi) ==
    IF lo > hi THEN Zero ELSE RAdd(PoissonSum(a, lo, hi - 1), PoissonTerm(a, hi))

\* The sum of r^m for m = lo .. hi.
RECURSIVE PowerSum(_, _, _)
PowerSum(r, lo, hi) ==
    IF lo > hi THEN Zero ELSE RAdd(PowerSum(r, lo, hi - 1), RPow(r, hi))

\* The sum of s[i] for i = lo .. hi.
RECURSIVE RangeSum(_, _, _)
RangeSum(s, lo, hi) ==
    IF lo > hi THEN Zero ELSE RAdd(RangeSum(s, lo, hi - 1), s[hi])

\* x rounded to the nearest multiple of 1/scale, as a number of such units.
Rounded(x, scale) == (2 * x[1] * scale + x[2]) \div (2 * x[2])

\* The offered load and the utilisation of a call's parameters.
OfferedLoad(p) == RDiv(p.arrivalRate, p.serviceRate)
Rho(p) == RDiv(p.arrivalRate, RMul(FromInt(p.c), p.serviceRate))

InstabilityError == "System must be stable: arrivalRate < c * serviceRate"

-----------------------------------------------------------------------------
(* The finite solver.                                                       *)

\* A call of mmckFinite with parameters of its domain is at its return.
FiniteCall ==
    /\ call.fn = "mmckFinite"
    /\ call.p.c >= 1 /\ call.p.K >= 0
    /\ RGt(call.p.arrivalRate, Zero) /\ RGt(call.p.serviceRate, Zero)

\* The normalising constant 1 / (sum_{n<c} a^n/n! + (a^c/c!) sum_{m=0..K} rho^m).
ReferenceP0(p) ==
    RInv(RAdd(PoissonSum(OfferedLoad(p), 0, p.c - 1),
              RMul(PoissonTerm(OfferedLoad(p), p.c), PowerSum(Rho(p), 0, p.K))))

\* The probability of n in the system.
ReferencePn(p, n) ==
    IF n < p.c
    THEN RMul(ReferenceP0(p), PoissonTerm(OfferedLoad(p), n))
    ELSE RMul(RMul(ReferenceP0(p), PoissonTerm(OfferedLoad(p), p.c)),
              RPow(Rho(p), n - p.c))

\* C1: for c >= 1, K >= 0 and positive rates, mmckFinite returns a
\* stateProbabilities of exactly c + K + 1 entries; entry n is P0 a^n / n! for
\* n < c and P0 (a^c / c!) rho^(n - c) for n >= c, every entry is >= 0, and the
\* entries sum to 1, whether rho is below, at or above 1.
C1_StateProbabilities ==
    FiniteCall =>
        /\ ~result.threw
        /\ LET p  == call.p
               sp == result.value.stateProbabilities
           IN  /\ Len(sp) = p.c + p.K + 1
               /\ \A n \in 0 .. p.c + p.K :
                    /\ sp[n + 1] = ReferencePn(p, n)
                    /\ RGe(sp[n + 1], Zero)
               /\ RSum(sp) = One

\* mmckFinite has returned a distribution over several waiting places for a
\* system with rho = 1.
C1_Witness ==
    /\ FiniteCall /\ ~result.threw
    /\ call.p.c = 2 /\ call.p.K = 3
    /\ Rho(call.p) = One
    /\ Len(result.value.stateProbabilities) = 6
    /\ RSum(result.value.stateProbabilities) = One

InfiniteReturned == call.fn = "mmcInfinite" /\ ~result.threw

\* C3: Little's law. In the result of mmckFinite with R > 0, I = R T and
\* Ii = R Ti; in the result of mmcInfinite, I = arrivalRate T and
\* Ii = arrivalRate Ti; in both, I = Ii + Ip.
C3_LittlesLaw ==
    /\ (FiniteCall /\ ~result.threw) =>
          LET v == result.value
          IN  /\ RGt(v.R, Zero) => /\ v.I = RMul(v.R, v.T)
                                   /\ v.Ii = RMul(v.R, v.Ti)
              /\ v.I = RAdd(v.Ii, v.Ip)
    /\ InfiniteReturned =>
          LET v == result.value
          IN  /\ v.I = RMul(call.p.arrivalRate, v.T)
              /\ v.Ii = RMul(call.p.arrivalRate, v.Ti)
              /\ v.I = RAdd(v.Ii, v.Ip)

\* mmckFinite has returned a result with a positive throughput and a
\* non-empty queue that obeys Little's law.
C3_Witness ==
    /\ FiniteCall /\ ~result.threw
    /\ RGt(result.value.R, Zero)
    /\ RGt(result.value.Ii, Zero)
    /\ RGt(result.value.Ti, Zero)
    /\ result.value.I = RMul(result.value.R, result.value.T)

\* C5: mmckFinite throws its domain error, and returns nothing, exactly when
\* c < 1 or K < 0; for c >= 1, K >= 0 and positive rates it returns a result,
\* also when rho = 1 and when rho > 1.
C5_FiniteDomain ==
    call.fn = "mmckFinite" =>
        /\ result.threw <=> (call.p.c < 1 \/ call.p.K < 0)
        /\ result.threw =>
              /\ result.error = "c must be >= 1 and K must be >= 0"
              /\ "value" \notin DOMAIN result
        /\ FiniteCall =>
              /\ ~result.threw
              /\ "stateProbabilities" \in DOMAIN result.value
              /\ \A f \in {"R", "RiPb", "Pb", "Ii", "Ti", "Ip", "Utilization", "I", "T"} :
                    IsFinite(result.value[f])

\* mmckFinite has returned a result for a system with K = 0 and rho > 1.
C5_Witness ==
    /\ FiniteCall /\ ~result.threw
    /\ call.p.K = 0
    /\ RGt(Rho(call.p), One)
    /\ IsFinite(result.value.T)

\* The Erlang-B blocking probability (a^c / c!) / sum_{n=0..c} a^n / n!.
ErlangB(a, c) == RDiv(PoissonTerm(a, c), PoissonSum(a, 0, c))

\* C6: with K = 0 mmckFinite reports Ii = 0, Ti = 0 and Pb equal to the
\* Erlang-B value (a^c/c!) / sum_{n=0..c} a^n/n!; for c = 2, arrivalRate = 45,
\* serviceRate = 25 that is Pb = 81/221, 0.3665 to four places.
C6_NoWaitingRoom ==
    (FiniteCall /\ call.p.K = 0) =>
        /\ ~result.threw
        /\ result.value.Ii = Zero
        /\ result.value.Ti = Zero
        /\ result.value.Pb = ErlangB(OfferedLoad(call.p), call.p.c)
        /\ (call.p.c = 2 /\ call.p.arrivalRate = FromInt(45)
                         /\ call.p.serviceRate = FromInt(25)) =>
              /\ result.value.Pb = <<81, 221>>
              /\ Rounded(result.value.Pb, 10000) = 3665

\* mmckFinite has returned from c = 2, K = 0, arrivalRate = 45,
\* serviceRate = 25 with the Erlang-B blocking probability.
C6_Witness ==
    /\ call.fn = "mmckFinite" /\ call.p = Example1
    /\ ~result.threw
    /\ result.value.Pb = <<81, 221>>
    /\ result.value.Ii = Zero

\* C10: when Q is supplied to mmckFinite, P_q_gt_Q is 0 for Q >= K and, for
\* 0 <= Q < K, the sum of stateProbabilities[n] over n = c+Q+1 .. N; when Q is
\* not supplied the result has no P_q_gt_Q.
C10_FiniteTail ==
    FiniteCall =>
        /\ ~result.threw
        /\ LET p == call.p
               v == result.value
           IN  IF "Q" \in DOMAIN p
               THEN /\ "P_q_gt_Q" \in DOMAIN v
                    /\ p.Q >= p.K => v.P_q_gt_Q = Zero
                    /\ (0 <= p.Q /\ p.Q < p.K) =>
                          v.P_q_gt_Q = RangeSum(v.stateProbabilities,
                                                p.c + p.Q + 2, p.c + p.K + 1)
               ELSE "P_q_gt_Q" \notin DOMAIN v

\* mmckFinite has returned the mass of the two longest waiting lines of a
\* system with three waiting places.
C10_Witness ==
    /\ FiniteCall /\ ~result.threw
    /\ "Q" \in DOMAIN call.p
    /\ call.p.Q = 1 /\ call.p.K = 3
    /\ RGt(result.value.P_q_gt_Q, Zero)
    /\ result.value.P_q_gt_Q = RAdd(result.value.stateProbabilities[call.p.c + 3],
                                    result.value.stateProbabilities[call.p.c + 4])

\* C11: when the throughput R of mmckFinite is 0, as it is for arrivalRate = 0
\* with c >= 1, K >= 0 and serviceRate > 0, the call does not throw and returns
\* Ti = 0 and T = 0; whenever R > 0, Ti = Ii / R and T = I / R.
C11_ZeroThroughput ==
    (/\ call.fn = "mmckFinite"
     /\ call.p.c >= 1 /\ call.p.K >= 0
     /\ RGe(call.p.arrivalRate, Zero) /\ RGt(call.p.serviceRate, Zero)) =>
        /\ ~result.threw
        /\ LET v == result.value
           IN  /\ call.p.arrivalRate = Zero => v.R = Zero
               /\ v.R = Zero => v.Ti = Zero /\ v.T = Zero
               /\ RGt(v.R, Zero) => v.Ti = RDiv(v.Ii, v.R) /\ v.T = RDiv(v.I, v.R)
               /\ v.R = Zero \/ RGt(v.R, Zero)

\* mmckFinite has returned from a call with arrivalRate = 0 and waiting
\* places: no throughput, and both times 0.
C11_Witness ==
    /\ call.fn = "mmckFinite" /\ ~result.threw
    /\ call.p.arrivalRate = Zero
    /\ call.p.c = 2 /\ call.p.K = 2
    /\ result.value.R = Zero
    /\ result.value.Ti = Zero
    /\ result.value.T = Zero

-----------------------------------------------------------------------------
(* The infinite solver and the priority solver.                             *)

\* C4: for c >= 1 and positive rates mmcInfinite throws the instability error
\* exactly when arrivalRate >= c serviceRate, equality included, and returns a
\* result otherwise; for c < 1 it throws the invalid-parameter error whatever
\* the rates; mmcPriority throws the instability error whenever rho >= 1.
C4_Stability ==
    /\ call.fn = "mmcInfinite" =>
          LET p == call.p
          IN  IF p.c < 1
              THEN result.threw /\ result.error = "c must be >= 1"
              ELSE IF RGe(p.arrivalRate, RMul(FromInt(p.c), p.serviceRate))
              THEN result.threw /\ result.error = InstabilityError
              ELSE ~result.threw /\ IsFinite(result.value.Ii)
    /\ (call.fn = "mmcPriority" /\ RGe(Rho(call.p), One)) =>
          result.threw /\ result.error = InstabilityError

\* mmcInfinite has thrown the instability error for arrivalRate = c serviceRate.
C4_Witness ==
    /\ call.fn = "mmcInfinite"
    /\ call.p.c = 2
    /\ call.p.arrivalRate = RMul(FromInt(2), call.p.serviceRate)
    /\ result.threw
    /\ result.error = InstabilityError

\* C7: for c = 2, arrivalRate = 45, serviceRate = 25 mmcInfinite returns
\* Ii = P0 a^c rho / (c! (1 - rho)^2) = 729/95 (7.674), Ti = Ii / 45 (0.1705),
\* Ip = 1.8, Utilization = 0.9, I = 9.474, T = 0.2105 and Pw = 16.2/19 (0.8526).
C7_ErlangCExample ==
    (call.fn = "mmcInfinite" /\ call.p.c = 2 /\ call.p.arrivalRate = FromInt(45)
                             /\ call.p.serviceRate = FromInt(25)) =>
        /\ ~result.threw
        /\ LET v  == result.value
               a  == Norm(9, 5)
               P0 == RInv(RAdd(PoissonSum(a, 0, 1),
                               RDiv(PoissonTerm(a, 2), RSub(One, Norm(9, 10)))))
           IN  /\ v.Ii = RDiv(RMul(RMul(P0, RPow(a, 2)), Norm(9, 10)),
                              RMul(FromInt(2), RPow(Norm(1, 10), 2)))
               /\ v.Ii = <<729, 95>> /\ Rounded(v.Ii, 1000) = 7674
               /\ v.Ti = RDiv(v.Ii, FromInt(45)) /\ Rounded(v.Ti, 10000) = 1705
               /\ v.Ip = Norm(18, 10)
               /\ v.Utilization = Norm(9, 10)
               /\ Rounded(v.I, 1000) = 9474
               /\ Rounded(v.T, 10000) = 2105
               /\ v.Pw = Norm(162, 190) /\ Rounded(v.Pw, 10000) = 8526

\* mmcInfinite has returned from c = 2, arrivalRate = 45, serviceRate = 25.
C7_Witness ==
    /\ call.fn = "mmcInfinite" /\ call.p = Example2
    /\ ~result.threw
    /\ result.value.Ii = <<729, 95>>
    /\ result.value.Pw = <<81, 95>>

\* A call of mmcPriority on a stable system, with non-negative class
\* fractions that sum to 1, is at its return.
PriorityCall ==
    /\ call.fn = "mmcPriority"
    /\ call.p.c >= 1
    /\ RGt(call.p.arrivalRate, Zero) /\ RGt(call.p.serviceRate, Zero)
    /\ RLt(Rho(call.p), One)
    /\ \A k \in DOMAIN call.p.classFractions : RGe(call.p.classFractions[k], Zero)
    /\ RSum(call.p.classFractions) = One

\* The Ii_k of the classes, in class order.
ClassIi(classes) == [k \in DOMAIN classes |-> classes[k].Ii_k]

\* C8: for a stable input of mmcPriority and non-negative classFractions that
\* sum to 1, the Ii_k of the classes sum to Ii_total, and Ii_total is the Ii
\* that mmcInfinite returns for the same c, arrivalRate and serviceRate.
C8_ClassesSumToTotal ==
    PriorityCall =>
        /\ ~result.threw
        /\ Len(result.value.classes) = Len(call.p.classFractions)
        /\ RSum(ClassIi(result.value.classes)) = result.value.Ii_total
        /\ LET overall == mmcInfinite(factorialCache,
                                      [c |-> call.p.c,
                                       arrivalRate |-> call.p.arrivalRate,
                                       serviceRate |-> call.p.serviceRate])
           IN  ~overall.threw /\ result.value.Ii_total = overall.value.Ii

\* mmcPriority has returned from a call with four classes of positive
\* fraction, whose queue lengths sum to the aggregate.
C8_Witness ==
    /\ PriorityCall /\ ~result.threw
    /\ Len(result.value.classes) = 4
    /\ \A k \in 1 .. 4 : RGt(result.value.classes[k].Ii_k, Zero)
    /\ RSum(ClassIi(result.value.classes)) = result.value.Ii_total

\* C9: in mmcPriority with rho < 1, arrivalRate > 0 and non-negative fractions
\* that sum to 1, two classes j < k of positive fraction have
\* 0 < Ti_j < Ti_k, and a class of fraction 0 has Ii_k = 0 and Ti_k = 0.
C9_PriorityOrder ==
    PriorityCall =>
        /\ ~result.threw
        /\ LET f  == call.p.classFractions
               cl == result.value.classes
           IN  /\ \A j, k \in DOMAIN f :
                     (j < k /\ RGt(f[j], Zero) /\ RGt(f[k], Zero)) =>
                         /\ RGt(cl[j].Ti_k, Zero)
                         /\ RLt(cl[j].Ti_k, cl[k].Ti_k)
               /\ \A k \in DOMAIN f :
                     f[k] = Zero => cl[k].Ii_k = Zero /\ cl[k].Ti_k = Zero

\* mmcPriority has returned from c = 2, arrivalRate = 45, serviceRate = 24,
\* fractions 0.2, 0.8, 0, 0: the first class waits less than the second, the
\* last two carry nothing.
C9_Witness ==
    /\ call.fn = "mmcPriority" /\ call.p = Example3
    /\ ~result.threw
    /\ result.value.classes[1].Ti_k = <<75, 3224>>
    /\ result.value.classes[2].Ti_k = <<150, 403>>
    /\ result.value.classes[3].Ii_k = Zero
    /\ result.value.classes[4].Ti_k = Zero

-----------------------------------------------------------------------------
(* The simulator's run.                                                     *)

\* The scheduled arrival times that are due: those up to the clock.
DueArrivals == {k \in DOMAIN scheduled : RLe(scheduled[k], currentTime)}

\* The Customers in service.
InService == {servers[i] : i \in {j \in DOMAIN servers : servers[j] # null}}

\* Every dog and every Customer the simulator holds.
Held ==
    {arrivingDogs[k] : k \in DOMAIN arrivingDogs}
        \cup {queue[k] : k \in DOMAIN queue} \cup InService

\* C12: every scheduled arrival time, that is every value nextArrivalTime
\* takes from 0 on, produces exactly one Job, pushed onto the waiting line in
\* schedule order at the first tick whose time is >= that arrival time; none
\* is skipped or duplicated, so that once ticks have run totalArrived is the
\* number of scheduled arrival times <= the current time.
C12_EveryArrivalOnce ==
    RGt(currentTime, Zero) =>
        /\ totalArrived = Cardinality(DueArrivals)
        /\ \A x \in Held :
              x.id \in DOMAIN scheduled /\ x.arrivalTime = scheduled[x.id]
        /\ \A k \in DOMAIN arrivingDogs :
              RGt(arrivingDogs[k].arrivalTime, currentTime)
        /\ \A j, k \in DOMAIN queue : j < k => queue[j].id < queue[k].id

\* A step of the simulation loop: the only step that advances the clock.
TickStepTaken == event' = "tick" /\ currentTime' # currentTime

\* Server i (1-based) takes a Customer in this step.
Started(i) ==
    /\ servers'[i] # null
    /\ servers[i] = null \/ servers[i].id # servers'[i].id

\* C13: Jobs enter service first come, first served. On each tick the free
\* server slots are scanned in index order and each takes the Job at the front
\* of the waiting line, stamped with startServiceTime = the tick's time,
\* endServiceTime = startServiceTime + serviceTime and serverId = the slot's
\* index; a slot stays free only once the line is empty, and nobody waiting
\* is overtaken or lost.
C13_FirstComeFirstServed ==
    [][TickStepTaken =>
        /\ \A i \in DOMAIN servers' : Started(i) =>
              /\ servers'[i].startServiceTime = currentTime'
              /\ servers'[i].endServiceTime
                    = RAdd(currentTime', servers'[i].serviceTime)
              /\ servers'[i].serverId = i - 1
        /\ \A i, j \in DOMAIN servers' :
              i < j /\ Started(i) /\ Started(j)
                  => servers'[i].id < servers'[j].id
        /\ \A i \in DOMAIN servers' : \A k \in DOMAIN queue' :
              Started(i) => servers'[i].id < queue'[k].id
        /\ \A j, k \in DOMAIN queue' : j < k => queue'[j].id < queue'[k].id
        /\ \A i \in DOMAIN servers' : servers'[i] = null =>
              /\ queue' = <<>>
              /\ \A j \in DOMAIN servers' : j > i => ~Started(j)
        /\ \A k \in DOMAIN queue :
              \/ \E i \in DOMAIN servers' :
                    Started(i) /\ servers'[i].id = queue[k].id
              \/ \E j \in DOMAIN queue' : queue'[j] = queue[k]
    ]_vars

\* A tick in which both servers took a Job and a third Job stayed in line.
C13_Witness ==
    /\ event = "tick"
    /\ Len(servers) = 2
    /\ \A i \in DOMAIN servers :
          servers[i] # null /\ servers[i].startServiceTime = currentTime
    /\ queue # <<>>

\* The Customer in slot i (1-based) leaves the slot in this step.
Freed(i) ==
    /\ servers[i] # null
    /\ servers'[i] = null \/ servers'[i].id # servers[i].id

\* The occupied slots whose Customer's endServiceTime the time t has reached.
Finished(t) ==
    {i \in DOMAIN servers :
        servers[i] # null /\ RGe(t, servers[i].endServiceTime)}

\* C14: a tick frees a server slot exactly when its time has reached the
\* occupying Job's endServiceTime, so a slot is freed in the first tick whose
\* time is >= endServiceTime and never earlier; completedCount grows by the
\* number of slots freed in the tick, and it never decreases between resets.
C14_Departures ==
    [][/\ TickStepTaken =>
            /\ \A i \in DOMAIN servers : Freed(i) <=> i \in Finished(currentTime')
            /\ completedCount' = completedCount + Cardinality(Finished(currentTime'))
       /\ event' # "reset" => completedCount' >= completedCount
    ]_vars

\* A tick whose time is exactly the endServiceTime of the Job it freed: with
\* service time 1/5 the Job that started at 0.1 ends at 0.3.
C14_Witness ==
    /\ event = "tick"
    /\ serviceRate = FromInt(5) /\ cvService = Zero
    /\ currentTime = Norm(3, 10)
    /\ completedCount = 1
    /\ \A i \in DOMAIN servers : servers[i] = null

\* C15: history sampling has a fixed cadence independent of speed. After any
\* ticks since the last reset, at any speeds, the history holds exactly
\* floor(2 * time) points, one for each half time-unit boundary crossed and
\* at most one for a tick, their times are strictly increasing, and each
\* point records the waiting-line length at the end of its tick.
C15_HistoryCadence ==
    /\ Len(queueHistory) = Floor(RMul(FromInt(2), currentTime))
    /\ \A j, k \in DOMAIN queueHistory :
          j < k => RLt(queueHistory[j].time, queueHistory[k].time)
    /\ \A k \in DOMAIN queueHistory :
          /\ RLe(queueHistory[k].time, currentTime)
          /\ queueHistory[k].time = currentTime
                => queueHistory[k].queueLength = Len(queue)

\* C16: reset, from any reachable state, running or paused, leaves the clock
\* at 0, the waiting line empty, numServers server slots all empty, no pending
\* arrivals, completedCount 0, totalArrived 0, an empty history, next job id
\* 1, next arrival time 0, and the simulation paused.
C16_ResetClears ==
    event = "reset" =>
        /\ currentTime = Zero
        /\ queue = <<>>
        /\ Len(servers) = numServers
        /\ \A i \in DOMAIN servers : servers[i] = null
        /\ arrivingDogs = <<>>
        /\ completedCount = 0
        /\ totalArrived = 0
        /\ queueHistory = <<>>
        /\ nextCustomerId = 1
        /\ nextArrivalTime = Zero
        /\ ~isRunning

\* A run reset after the server count and the speed were changed.
C16_Witness ==
    event = "reset" /\ numServers = 1 /\ speed = FromInt(5)

\* C17: changing the server count from m to n while paused produces a server
\* array of length n in which slot i holds exactly what it held before for
\* every i < min(m, n) and every slot i >= m is empty (slots counted from 0);
\* the clock, the waiting line, the counters, the history and the next arrival
\* time are unchanged.
C17_ResizeKeepsSlots ==
    [][event' = "numServers" /\ numServers' # numServers =>
        LET m == numServers
            n == numServers'
        IN  /\ ~isRunning
            /\ Len(servers) = m
            /\ Len(servers') = n
            /\ \A i \in 1 .. n :
                  servers'[i] = IF i <= m THEN servers[i] ELSE null
            /\ UNCHANGED <<currentTime, queue, completedCount, totalArrived,
                           queueHistory, nextArrivalTime>>
    ]_vars

\* The server count raised to 2 in a paused run whose first slot is occupied.
C17_Witness ==
    /\ event = "numServers"
    /\ numServers = 2
    /\ servers[1] # null
    /\ servers[2] = null
    /\ RGt(currentTime, Zero)

\* What a tick works on.
runState ==
    <<currentTime, servers, queue, arrivingDogs, completedCount, totalArrived,
      queueHistory, nextCustomerId, nextArrivalTime>>

\* C18: while the simulator is paused no tick is processed: unless the user
\* resets or changes the server count, the clock, the server slots, the
\* waiting line, the pending arrivals, the counters and the history stay as
\* they are. Pause and start themselves change none of them, so the first tick
\* after pause then start continues from exactly the state held at the pause:
\* it advances the clock by 0.1 * speed from the paused value, from the same
\* next arrival time.
C18_PauseHoldsState ==
    [][/\ ~isRunning => ~TickStepTaken
       /\ ~isRunning /\ event' \notin {"reset", "numServers"}
             => UNCHANGED runState
       /\ isRunning' # isRunning /\ event' \in {"pause", "start"}
             => UNCHANGED runState
       /\ TickStepTaken
             => /\ isRunning
                /\ currentTime' = RAdd(currentTime, RMul(Norm(1, 10), speed))
    ]_vars

\* A run started again after a pause, with a Job in service and an arrival
\* pending.
C18_Witness ==
    /\ event = "start"
    /\ isRunning
    /\ RGt(currentTime, Zero)
    /\ arrivingDogs # <<>>
    /\ \E i \in DOMAIN servers : servers[i] # null

\* The outcomes the next tick can have from the current state: one for each
\* sequence of interarrival and service draws.
TickOutcomes ==
    LET newTime == RAdd(currentTime, RMul(TickStep, speed))
        as == arrivalsLoop(newTime, {[arrivingDogs |-> arrivingDogs,
                                      nextCustomerId |-> nextCustomerId,
                                      nextArrivalTime |-> nextArrivalTime,
                                      scheduled |-> scheduled]})
    IN  UNION {{<<a, q>> :
                   q \in joinQueue(arrivedDogs(a.arrivingDogs, newTime), 1, queue)} :
               a \in as}

\* C19: with cvArrival = 0 and cvService = 0 every interarrival draw is
\* exactly 1 / arrivalRate and every service draw exactly 1 / serviceRate, so
\* the k-th Job (k = 0, 1, 2, ..., the Job of id k + 1) has arrivalTime
\* k / arrivalRate and endServiceTime - startServiceTime = 1 / serviceRate,
\* and a tick has one outcome only: two runs with the same parameters, ticks
\* and speeds pass through identical states.
C19_DeterministicRun ==
    cvArrival = Zero /\ cvService = Zero =>
        /\ \A k \in DOMAIN scheduled :
              k > 1 => RSub(scheduled[k], scheduled[k - 1]) = RInv(arrivalRate)
        /\ \A x \in Held :
              x.arrivalTime = RDiv(FromInt(x.id - 1), arrivalRate)
        /\ \A k \in DOMAIN queue : queue[k].serviceTime = RInv(serviceRate)
        /\ \A x \in InService :
              /\ x.serviceTime = RInv(serviceRate)
              /\ RSub(x.endServiceTime, x.startServiceTime) = RInv(serviceRate)
        /\ Cardinality(TickOutcomes) = 1

-----------------------------------------------------------------------------
(* The shared factorial cache.                                              *)

\* What the caller of a solver gets from the solver's outcome r.
Returned(r) ==
    IF r.threw THEN [threw |-> TRUE, error |-> r.error]
    ELSE [threw |-> FALSE, value |-> r.value]

\* The outcome and the cache of the call in progress, had it been made first,
\* with the cache at its initial value [1].
CalledFirst ==
    IF call.fn = "mmckFinite" THEN mmckFinite(<<1>>, call.p)
    ELSE IF call.fn = "mmcInfinite" THEN mmcInfinite(<<1>>, call.p)
    ELSE mmcPriority(<<1>>, call.p)

SolverCalled == call.fn \in {"mmckFinite", "mmcInfinite", "mmcPriority"}

\* C20: the solvers do not interfere across calls. For every parameter set,
\* mmckFinite, mmcInfinite and mmcPriority return (or throw) the same whatever
\* solver and factorial calls came before, that is for every state of the
\* shared factorial cache reachable from [1]: the same as when called first.
C20_NoInterference ==
    SolverCalled => result = Returned(CalledFirst)

\* A solver call that found the cache already extended by earlier calls: the
\* cache is longer than this call alone would have left it.
C20_Witness ==
    /\ SolverCalled
    /\ ~result.threw
    /\ Len(CalledFirst.cache) > 1
    /\ Len(factorialCache) > Len(CalledFirst.cache)

\* A call of factorial is made in this step.
FactorialCalled == call.fn = "none" /\ call'.fn = "factorial"

\* C21: after any sequence of factorial calls, factorial(n) returns n! for
\* every integer n >= 0 (factorial(0) = factorial(1) = 1, factorial(5) = 120,
\* whether smaller or larger arguments were asked before), and factorial(n)
\* for n < 0 fails with a domain error and leaves the cache unchanged.
C21_FactorialValue ==
    [][FactorialCalled =>
        IF call'.n < 0
        THEN /\ result' = [threw |-> TRUE,
                           error |-> "Factorial not defined for negative numbers"]
             /\ factorialCache' = factorialCache
        ELSE result' = [threw |-> FALSE, value |-> Fact(call'.n)]
    ]_vars

\* factorial(5) = 120 read from a cache that a larger argument had extended.
C21_Witness ==
    /\ call = [fn |-> "factorial", n |-> 5]
    /\ result = [threw |-> FALSE, value |-> 120]
    /\ Len(factorialCache) = 7

\* C22: the factorial cache is append-only. Across any sequence of calls its
\* length never decreases and an entry once written is never overwritten or
\* changed; it has no holes, and the entry at every index i holds i!.
C22_CacheAppendOnly ==
    [][/\ Len(factorialCache') >= Len(factorialCache)
       /\ \A k \in DOMAIN factorialCache : factorialCache'[k] = factorialCache[k]
       /\ DOMAIN factorialCache' = 1 .. Len(factorialCache')
       /\ \A k \in DOMAIN factorialCache' : factorialCache'[k] = Fact(k - 1)
    ]_vars

\* A call for a small argument made after the cache was extended up to 6!:
\* the cache is whole.
C22_Witness ==
    /\ call = [fn |-> "factorial", n |-> 3]
    /\ Len(factorialCache) = 7
    /\ factorialCache[7] = 720

-----------------------------------------------------------------------------
(* The geometric sums.                                                      *)

\* The sum of k * r^k for k = lo .. hi.
RECURSIVE WeightedPowerSum(_, _, _)
WeightedPowerSum(r, lo, hi) ==
    IF lo > hi THEN Zero
    ELSE RAdd(WeightedPowerSum(r, lo, hi - 1), RMul(FromInt(hi), RPow(r, hi)))

-----------------------------------------------------------------------------
(* The application's class fractions.                                       *)

\* C25: the class-fraction vector the application passes to mmcPriority
\* always has every entry non-negative and sums to 1, for every combination
\* of values entered for classes 2 .. 4 (each between 0% and 100%), the
\* class-1 fraction being 1 minus the sum of the others.
C25_FractionsValid ==
    call.fn = "mmcPriority" =>
        /\ \A k \in DOMAIN call.p.classFractions :
              RGe(call.p.classFractions[k], Zero)
        /\ RSum(call.p.classFractions) = One

-----------------------------------------------------------------------------
(* Conservation of Jobs in the simulator.                                   *)

\* The occupied server slots.
Occupied == {i \in DOMAIN servers : servers[i] # null}

\* Every Job that arrived has completed, waits or is in service.
Conserved ==
    totalArrived = completedCount + Len(queue) + Cardinality(Occupied)

\* No Job is twice in the waiting line, in two slots, or in both.
EachJobOnce ==
    /\ \A j, k \in DOMAIN queue : j # k => queue[j].id # queue[k].id
    /\ \A i, j \in Occupied : i # j => servers[i].id # servers[j].id
    /\ \A k \in DOMAIN queue : \A i \in Occupied : queue[k].id # servers[i].id

\* C26: Jobs are conserved: the run starts with totalArrived = completedCount
\* + waiting + occupied slots, and every tick, pause, start and reset taken
\* with that equation leaves it true, so it holds after every tick of any
\* sequence of ticks, pauses, starts and resets; and after each of them no
\* Job is at once in the waiting line and in a slot, or in two slots.
C26_JobConservation ==
    /\ Conserved
    /\ [][event' \in {"tick", "pause", "start", "reset"} =>
            /\ Conserved => Conserved'
            /\ EachJobOnce'
       ]_vars

\* After a tick, of two Jobs that arrived one has completed and one is in
\* service.
C26_Witness ==
    /\ event = "tick"
    /\ Conserved
    /\ totalArrived = 2
    /\ completedCount = 1
    /\ Cardinality(Occupied) = 1

\* C27: no Job is lost when the server count is changed while paused, be it
\* raised or lowered: totalArrived = completedCount + waiting + in service
\* still holds after the change (and so, every tick keeping it, after the
\* ticks that follow).
C27_ResizeKeepsJobs ==
    [][event' = "numServers" /\ Conserved => Conserved']_vars

-----------------------------------------------------------------------------
(* Work conservation.                                                       *)

\* The smaller of two numbers.
Min(a, b) == IF a <= b THEN a ELSE b

\* The slots that are free when a tick at time t assigns: empty before it, or
\* freed by it.
FreeAt(t) == {i \in DOMAIN servers : servers[i] = null} \cup Finished(t)

\* C28: the simulator is work-conserving at tick granularity. At the end of
\* every tick a non-empty waiting line means every server slot is occupied;
\* the Jobs waiting or arriving in a tick start in that tick as far as there
\* are free or freed slots; and a history point with queueLength > 0 is
\* recorded with all servers busy.
C28_WorkConserving ==
    [][TickStepTaken =>
        /\ queue' # <<>> => \A i \in DOMAIN servers' : servers'[i] # null
        /\ Cardinality({i \in DOMAIN servers' : Started(i)})
              = Min(Cardinality(FreeAt(currentTime')),
                    Len(queue) + (totalArrived' - totalArrived))
        /\ queueHistory' # queueHistory =>
              /\ queueHistory' = Append(queueHistory,
                                        [time |-> currentTime',
                                         queueLength |-> Len(queue')])
              /\ Len(queue') > 0 => \A i \in DOMAIN servers' : servers'[i] # null
    ]_vars

\* A tick that recorded a history point with a Job waiting and every server
\* busy, one of them with a Job that arrived and started in this tick.
C28_Witness ==
    /\ event = "tick"
    /\ queueHistory # <<>>
    /\ queueHistory[Len(queueHistory)] = [time |-> currentTime, queueLength |-> Len(queue)]
    /\ queue # <<>>
    /\ \A i \in DOMAIN servers : servers[i] # null
    /\ \E i \in DOMAIN servers : servers[i].startServiceTime = currentTime

-----------------------------------------------------------------------------
(* The finite solver's averages against its distribution.                   *)

\* A call of mmckFinite with c >= 1, K >= 0, arrivalRate >= 0 and a positive
\* serviceRate is at its return.
ValidFiniteCall ==
    /\ call.fn = "mmckFinite"
    /\ call.p.c >= 1 /\ call.p.K >= 0
    /\ RGe(call.p.arrivalRate, Zero) /\ RGt(call.p.serviceRate, Zero)

\* The mean number waiting under the distribution sp over 0 .. N in a system
\* of c servers: the sum of (n - c) sp[n] for n = c .. N.
MeanWaiting(sp, c) ==
    RSum([i \in DOMAIN sp |->
            IF i - 1 >= c THEN RMul(FromInt(i - 1 - c), sp[i]) ELSE Zero])

\* The mean number in service: the sum of min(n, c) sp[n] for n = 0 .. N.
MeanInService(sp, c) ==
    RSum([i \in DOMAIN sp |-> RMul(FromInt(Min(i - 1, c)), sp[i])])

\* C29: the averages mmckFinite returns agree with the stateProbabilities it
\* returns: Ii is the sum of (n - c) p[n] for n = c .. N and Ip the sum of
\* min(n, c) p[n] for n = 0 .. N, so that 0 <= Utilization <= 1 for every
\* valid input, rho >= 1 included.
C29_AveragesAgree ==
    ValidFiniteCall =>
        /\ ~result.threw
        /\ LET sp == result.value.stateProbabilities
               c  == call.p.c
           IN  /\ Len(sp) = c + call.p.K + 1
               /\ result.value.Ii = MeanWaiting(sp, c)
               /\ result.value.Ip = MeanInService(sp, c)
               /\ result.value.Utilization = RDiv(result.value.Ip, FromInt(c))
               /\ RGe(result.value.Utilization, Zero)
               /\ RLe(result.value.Utilization, One)

\* mmckFinite has returned from an overloaded system (rho = 3/2) with two
\* servers and three waiting places, in which Jobs wait.
C29_Witness ==
    /\ ValidFiniteCall /\ ~result.threw
    /\ call.p.c = 2 /\ call.p.K = 3
    /\ Rho(call.p) = Norm(3, 2)
    /\ RGt(result.value.Ii, Zero)
    /\ RLt(result.value.Utilization, One)

-----------------------------------------------------------------------------
(* The growth of the factorial cache.                                       *)

\* The larger of two numbers.
Max(a, b) == IF a >= b THEN a ELSE b

\* The call of factorial(n) made in this step extends the cache from its end
\* up to index n, or leaves it alone if index n is cached.
CacheExtendedTo(n) ==
    IF n < Len(factorialCache)
    THEN factorialCache' = factorialCache
    ELSE /\ Len(factorialCache') = Max(Len(factorialCache), n + 1)
         /\ \A i \in 0 .. n : factorialCache'[i + 1] = Fact(i)
         /\ SubSeq(factorialCache', 1, Len(factorialCache)) = factorialCache

\* C30 as stated: factorial(n) for an n >= 0 that is not yet cached extends
\* the cache from its high-water mark up to n, so that after the call the
\* cache holds every index 0 .. n (its length is the larger of the previous
\* length and n + 1); asking for a cached n leaves the cache unchanged.
C30_CacheExtended ==
    [][FactorialCalled /\ call'.n >= 0 => CacheExtendedTo(call'.n)]_vars

\* C30 as the code has it: the same for n >= 2, while factorial(0) and
\* factorial(1) return 1 without touching the cache, cached or not.
C30_CacheExtendedFromTwo ==
    [][FactorialCalled /\ call'.n >= 0 =>
         IF call'.n <= 1 THEN factorialCache' = factorialCache
         ELSE CacheExtendedTo(call'.n)
    ]_vars

\* factorial(4) has extended a cache that ended at index 2 (or before) up to
\* index 4.
C30_Witness ==
    /\ call = [fn |-> "factorial", n |-> 4]
    /\ Len(factorialCache) = 5
    /\ factorialCache[5] = 24

=============================================================================
